---- MODULE Spec2Model ----
(***************************************************************************)
(* The RAG notebook of tudor-james/ai-playground as a state machine.       *)
(*                                                                         *)
(* The notebook is a sequence of cells run one at a time by a single       *)
(* kernel.  The cells that carry state are                                 *)
(*   - the ingestion cell: load the PDF, split it into chunks, build the   *)
(*     ids and hand everything to Chroma.from_documents;                   *)
(*   - the vector store test cell: store.similarity_search(query);         *)
(*   - the cells that call rag_chain.invoke(query), where                  *)
(*       rag_chain = {"context": retriever,                                *)
(*                    "question": RunnablePassthrough()} | llm_chain.      *)
(* Text is modelled as a sequence of one-character strings; the literal    *)
(* pieces of the prompt template are kept as single elements.              *)
(* The globals documents, chunks and docs are written and read inside one  *)
(* cell only.  Spec runs a cell as one action and LET-binds them;          *)
(* SplitSpec runs the ingestion cell one statement at a time, with the     *)
(* arguments of the splitter and the page texts varied, and keeps          *)
(* text_splitter, documents and chunks as variables.                       *)
(***************************************************************************)
EXTENDS Integers, Sequences, FiniteSets, TLC

VARIABLES
    store,        \* the records of collection "D4DO-Embeddings", in insertion order
    printed,      \* what the vector store test cell printed last
    stage,        \* where the current rag_chain.invoke call is
    question,     \* the query handed to rag_chain.invoke
    query_vector, \* the embedding of the question
    context,      \* what the retriever returned
    prompt,       \* the formatted prompt
    text,         \* the text the pipeline returned
    result,       \* the value rag_chain.invoke returned
    error,        \* which step raised, when the call failed
    text_splitter, \* SplitSpec: the splitter the ingestion cell has built
    documents,    \* SplitSpec: the pages the loader returned
    chunks,       \* SplitSpec: what split_documents returned
    invoked       \* how often the current call has run the embedding and
                  \* the text generation (kept for the properties)

vars == <<store, printed, stage, question, query_vector,
          context, prompt, text, result, error,
          text_splitter, documents, chunks, invoked>>

\* the globals of the ingestion cell that SplitSpec follows
cell == <<text_splitter, documents, chunks>>

request == <<stage, question, query_vector, context, prompt, text, result, error>>

---------------------------------------------------------------------------
(* Bounds of the model *)

\* the largest number of pages the loader returns for the PDF
MaxPages == 5

---------------------------------------------------------------------------
(* Program constants *)

\* RecursiveCharacterTextSplitter(chunk_size = 150, ...)
chunk_size == 150

\* RecursiveCharacterTextSplitter(chunk_overlap = 50, ...)
chunk_overlap == 50

\* similarity_search(query) and store.as_retriever() are called without k:
\* four documents come back (the recorded outputs hold four)
DefaultK == 4

\* PyPDFLoader("/tf/docker-shared-data/rag-data/d4do_paperback.pdf")
Source == "/tf/docker-shared-data/rag-data/d4do_paperback.pdf"

\* the page texts the PDF may hold
PageTexts == { <<"a">>, <<"b", "\n", "b">> }

\* the questions a user may ask
Questions == { <<"a">>, <<"b">> }

\* what the language model may append to the prompt
Answers == { <<"answer">>, <<"no answer in the book">> }

\* a variable that holds nothing yet
None == <<>>

\* a call that has run neither the embedding nor the text generation
NotInvoked == [embed_query |-> 0, generate |-> 0]

---------------------------------------------------------------------------
(* Sequences *)

RECURSIVE Concat(_)
\* "".join(parts)
Concat(parts) ==
    IF parts = <<>> THEN <<>> ELSE Head(parts) \o Concat(Tail(parts))

RECURSIVE Join(_, _)
\* sep.join(parts)
Join(parts, sep) ==
    IF parts = <<>> THEN <<>>
    ELSE IF Len(parts) = 1 THEN parts[1]
    ELSE parts[1] \o sep \o Join(Tail(parts), sep)

\* needle in haystack, for Python strings
Contains(haystack, needle) ==
    \E i \in 0..(Len(haystack) - Len(needle)) :
        \A j \in 1..Len(needle) : haystack[i + j] = needle[j]

Range(s) == { s[i] : i \in 1..Len(s) }

---------------------------------------------------------------------------
(* text_splitter = RecursiveCharacterTextSplitter(chunk_size, chunk_overlap,  *)
(*                     length_function = len, is_separator_regex = False)     *)

\* the splitter's default separators: "\n\n", "\n", " ", ""
Separators == << <<"\n", "\n">>, <<"\n">>, <<" ">>, <<>> >>

Whitespace == {" ", "\n", "\t", "\r"}

RECURSIVE LStrip(_)
LStrip(s) ==
    IF s # <<>> /\ Head(s) \in Whitespace THEN LStrip(Tail(s)) ELSE s

RECURSIVE RStrip(_)
RStrip(s) ==
    IF s # <<>> /\ s[Len(s)] \in Whitespace
    THEN RStrip(SubSeq(s, 1, Len(s) - 1)) ELSE s

\* str.strip()
Strip(s) == RStrip(LStrip(s))

\* text[i:].startswith(sep)
StartsAt(s, i, sep) ==
    /\ i + Len(sep) - 1 <= Len(s)
    /\ \A j \in 1..Len(sep) : s[i + j - 1] = sep[j]

RECURSIVE SplitScan(_, _, _, _)
\* re.split with the separator kept at the start of the piece that follows it
SplitScan(s, sep, i, cur) ==
    IF i > Len(s) THEN <<cur>>
    ELSE IF StartsAt(s, i, sep)
         THEN <<cur>> \o SplitScan(s, sep, i + Len(sep), sep)
         ELSE SplitScan(s, sep, i + 1, Append(cur, s[i]))

\* _split_text_with_regex(text, separator, keep_separator = True)
split_text_with_regex(s, sep) ==
    LET pieces == IF sep = <<>> THEN [i \in 1..Len(s) |-> <<s[i]>>]
                  ELSE SplitScan(s, sep, 1, <<>>)
    IN  SelectSeq(pieces, LAMBDA x : x # <<>>)

\* _join_docs: the joined text stripped, nothing when it is empty
join_docs(docs, sep) ==
    LET t == Strip(Join(docs, sep))
    IN  IF t = <<>> THEN <<>> ELSE <<t>>

RECURSIVE PopFrontKeep(_, _, _, _, _, _)
\* PopFront with a plausible bug: splits are dropped until the overlap is
\* small enough, whether or not the next split then fits
PopFrontKeep(cur, total, len, seplen, size, overlap) ==
    IF total > overlap
    THEN PopFrontKeep(Tail(cur),
                      total - (Len(Head(cur)) + (IF Len(cur) > 1 THEN seplen ELSE 0)),
                      len, seplen, size, overlap)
    ELSE <<cur, total>>

RECURSIVE PopFrontFit(_, _, _, _, _, _)
\* PopFront with a plausible bug: splits are dropped until the next split
\* fits, whatever the overlap
PopFrontFit(cur, total, len, seplen, size, overlap) ==
    IF /\ total + len + (IF Len(cur) > 0 THEN seplen ELSE 0) > size
       /\ total > 0
    THEN PopFrontFit(Tail(cur),
                     total - (Len(Head(cur)) + (IF Len(cur) > 1 THEN seplen ELSE 0)),
                     len, seplen, size, overlap)
    ELSE <<cur, total>>

RECURSIVE PopFront(_, _, _, _, _, _)
\* the while loop of _merge_splits: drop leading splits until the overlap fits
PopFront(cur, total, len, seplen, size, overlap) ==
    IF \/ total > overlap
       \/ /\ total + len + (IF Len(cur) > 0 THEN seplen ELSE 0) > size
          /\ total > 0
    THEN PopFront(Tail(cur),
                  total - (Len(Head(cur)) + (IF Len(cur) > 1 THEN seplen ELSE 0)),
                  len, seplen, size, overlap)
    ELSE <<cur, total>>

RECURSIVE MergeLoop(_, _, _, _, _, _)
MergeLoop(splits, sep, cur, total, size, overlap) ==
    IF splits = <<>> THEN join_docs(cur, sep)
    ELSE
      LET d == Head(splits)
          len == Len(d)
          seplen == Len(sep)
          over == total + len + (IF Len(cur) > 0 THEN seplen ELSE 0) > size
          flush == over /\ Len(cur) > 0
          popped == IF flush THEN PopFront(cur, total, len, seplen, size, overlap)
                    ELSE <<cur, total>>
          cur2 == Append(popped[1], d)
          total2 == popped[2] + len + (IF Len(cur2) > 1 THEN seplen ELSE 0)
      IN  (IF flush THEN join_docs(cur, sep) ELSE <<>>)
          \o MergeLoop(Tail(splits), sep, cur2, total2, size, overlap)

\* _merge_splits(splits, separator)
merge_splits(splits, sep, size, overlap) ==
    MergeLoop(splits, sep, <<>>, 0, size, overlap)

\* the index of the first separator that is "" or occurs in the text
FirstSeparator(s, seps) ==
    LET hits == { i \in 1..Len(seps) : seps[i] = <<>> \/ Contains(s, seps[i]) }
    IN  IF hits = {} THEN Len(seps)
        ELSE CHOOSE i \in hits : \A j \in hits : i <= j

RECURSIVE split_text_rec(_, _, _, _)
RECURSIVE SplitLoopForget(_, _, _, _, _)
RECURSIVE SplitLoop(_, _, _, _, _)

\* SplitLoop with a plausible bug: the short pieces collected before a long
\* piece are not merged into chunks, they are forgotten
SplitLoopForget(splits, good, rest, size, overlap) ==
    IF splits = <<>>
    THEN IF good = <<>> THEN <<>> ELSE merge_splits(good, <<>>, size, overlap)
    ELSE
      LET p == Head(splits)
      IN  IF Len(p) < size
          THEN SplitLoopForget(Tail(splits), Append(good, p), rest, size, overlap)
          ELSE (IF rest = <<>> THEN <<p>>
                ELSE split_text_rec(p, rest, size, overlap))
               \o SplitLoopForget(Tail(splits), <<>>, rest, size, overlap)

\* the loop of _split_text over the pieces
SplitLoop(splits, good, rest, size, overlap) ==
    IF splits = <<>>
    THEN IF good = <<>> THEN <<>> ELSE merge_splits(good, <<>>, size, overlap)
    ELSE
      LET p == Head(splits)
      IN  IF Len(p) < size
          THEN SplitLoop(Tail(splits), Append(good, p), rest, size, overlap)
          ELSE (IF good = <<>> THEN <<>> ELSE merge_splits(good, <<>>, size, overlap))
               \o (IF rest = <<>> THEN <<p>>
                   ELSE split_text_rec(p, rest, size, overlap))
               \o SplitLoop(Tail(splits), <<>>, rest, size, overlap)

\* RecursiveCharacterTextSplitter._split_text(text, separators)
split_text_rec(s, seps, size, overlap) ==
    LET i == FirstSeparator(s, seps)
        hit == seps[i] = <<>> \/ Contains(s, seps[i])
        rest == IF hit /\ seps[i] # <<>> THEN SubSeq(seps, i + 1, Len(seps)) ELSE <<>>
    IN  SplitLoop(split_text_with_regex(s, seps[i]), <<>>, rest, size, overlap)

\* RecursiveCharacterTextSplitter with a plausible bug: the arguments are
\* not checked
RecursiveCharacterTextSplitterUnchecked(size, overlap) ==
    <<[chunk_size |-> size, chunk_overlap |-> overlap]>>

\* RecursiveCharacterTextSplitter(chunk_size = size, chunk_overlap =
\* overlap): the splitter, or nothing when the constructor raises ValueError
\* ("Got a larger chunk overlap than chunk size")
RecursiveCharacterTextSplitter(size, overlap) ==
    IF overlap > size THEN <<>>
    ELSE <<[chunk_size |-> size, chunk_overlap |-> overlap]>>

\* text_splitter.split_text(text)
split_text(s, size, overlap) == split_text_rec(s, Separators, size, overlap)

RECURSIVE split_documents(_, _, _)
\* text_splitter.split_documents(documents): every chunk of every page, in
\* order, each with the metadata of its page
split_documents(docs, size, overlap) ==
    IF docs = <<>> THEN <<>>
    ELSE
      LET d == Head(docs)
          parts == split_text(d.page_content, size, overlap)
      IN  [i \in 1..Len(parts) |->
              [page_content |-> parts[i], metadata |-> d.metadata]]
          \o split_documents(Tail(docs), size, overlap)

---------------------------------------------------------------------------
(* The ingestion cell *)

\* loader.load(): one Document per page of the PDF, with the path and the
\* zero-based page number as metadata
load(pages) ==
    [i \in 1..Len(pages) |->
        [page_content |-> pages[i],
         metadata |-> [source |-> Source, page |-> i - 1]]]

Digits == <<"0", "1", "2", "3", "4", "5", "6", "7", "8", "9">>

RECURSIVE IntStr(_)
\* str(n) for n >= 0
IntStr(n) ==
    IF n < 10 THEN <<Digits[n + 1]>>
    ELSE IntStr(n \div 10) \o <<Digits[(n % 10) + 1]>>

\* ChunkId with a plausible bug: the page number stands where the index of
\* the chunk should
ChunkIdPage(item, index) ==
    <<item.metadata.source, "-">> \o IntStr(item.metadata.page)

\* f"{item.metadata['source']}-{index}"
ChunkId(item, index) == <<item.metadata.source, "-">> \o IntStr(index)

\* ids = [... for index, item in enumerate(chunks)]
ids(cs) == [i \in 1..Len(cs) |-> ChunkId(cs[i], i - 1)]

CountOf(c, s) == Cardinality({ i \in 1..Len(s) : s[i] = c })

\* embeddings.embed_documents / embed_query: the same text always gets the
\* same vector, and every vector has the same length
embed(s) == <<CountOf("a", s), CountOf("b", s)>>

\* the position of the record with this id, 0 when there is none
IndexOfId(st, id) ==
    LET hits == { i \in 1..Len(st) : st[i].id = id }
    IN  IF hits = {} THEN 0 ELSE CHOOSE i \in hits : TRUE

\* UpsertOne with a plausible bug: a record whose id is in the collection
\* already is left as it is (insert if absent instead of upsert)
UpsertOneKeep(st, rec) ==
    IF IndexOfId(st, rec.id) = 0 THEN Append(st, rec) ELSE st

\* UpsertOne with a plausible bug: the record is added whether or not its id
\* is in the collection already (add instead of upsert)
UpsertOneAdd(st, rec) == Append(st, rec)

\* collection.upsert of one record: replace the record with the same id,
\* or add the record after the others
UpsertOne(st, rec) ==
    LET i == IndexOfId(st, rec.id)
    IN  IF i = 0 THEN Append(st, rec) ELSE [st EXCEPT ![i] = rec]

RECURSIVE UpsertAll(_, _)
UpsertAll(st, recs) ==
    IF recs = <<>> THEN st
    ELSE UpsertAll(UpsertOne(st, Head(recs)), Tail(recs))

\* Chroma.from_documents(chunks, embeddings, ids = ..., collection_name =
\* "D4DO-Embeddings"): embed every chunk and upsert (id, vector, text,
\* metadata) into the collection of that name
from_documents(st, cs, idseq) ==
    UpsertAll(st, [i \in 1..Len(cs) |->
                      [id |-> idseq[i],
                       embedding |-> embed(cs[i].page_content),
                       page_content |-> cs[i].page_content,
                       metadata |-> cs[i].metadata]])

---------------------------------------------------------------------------
(* store.similarity_search and the retriever *)

RECURSIVE SumSq(_, _)
SumSq(u, v) ==
    IF u = <<>> THEN 0
    ELSE (Head(u) - Head(v)) * (Head(u) - Head(v)) + SumSq(Tail(u), Tail(v))

\* the collection is created without metadata, so Chroma ranks by its
\* default distance, the squared Euclidean distance
Distance(u, v) == SumSq(u, v)

\* what a search hands back for a record: the text and the metadata
AsDocument(rec) == [page_content |-> rec.page_content, metadata |-> rec.metadata]

RECURSIVE Ranked(_, _, _)
\* every way to list the k nearest of the records, nearest first; which of
\* two records at the same distance comes first is up to the index
Ranked(recs, v, k) ==
    IF k = 0 \/ recs = {} THEN { <<>> }
    ELSE
      LET nearest == { r \in recs :
                          \A o \in recs : Distance(r.embedding, v) <= Distance(o.embedding, v) }
      IN  UNION { { <<r>> \o rest : rest \in Ranked(recs \ {r}, v, k - 1) } : r \in nearest }

\* query_collection with a plausible bug: n_results is ignored
query_collection_all(st, v, k) == Ranked(Range(st), v, Len(st))

\* collection.query(query_embeddings = [v], n_results = k)
query_collection(st, v, k) == Ranked(Range(st), v, k)

\* store.similarity_search(query, k): embed the query, ask the collection
\* for the k nearest records, return them as Documents
similarity_search(st, q, k) ==
    { [i \in 1..Len(r) |-> AsDocument(r[i])] : r \in query_collection(st, embed(q), k) }

---------------------------------------------------------------------------
(* The prompt *)

\* prompt_template, cut at its two slots; the second piece is the instruction
prompt_template ==
    << "\n### [INST] \n",
       "Instruction: Answer the question based on your \ndesigned4devops knowledge. Don't make up answers, just say there is no answer in the book.",
       " Here is context to help:\n\n",
       "{context}",
       "\n\n### QUESTION:\n",
       "{question}",
       " \n\n[/INST]\n " >>

\* the instruction of the template
Directive == <<prompt_template[2]>>

\* one character of a Python string inside repr, with quote the quote in use
EscapeChar(c, quote) ==
    CASE c = "\n" -> <<"\\", "n">>
      [] c = "\t" -> <<"\\", "t">>
      [] c = "\r" -> <<"\\", "r">>
      [] c = "\\" -> <<"\\", "\\">>
      [] c = quote -> <<"\\", c>>
      [] OTHER -> <<c>>

\* repr(s) of a Python string
StrRepr(s) ==
    LET quote == IF "'" \in Range(s) /\ ~("\"" \in Range(s)) THEN "\"" ELSE "'"
    IN  <<quote>> \o Concat([i \in 1..Len(s) |-> EscapeChar(s[i], quote)]) \o <<quote>>

\* repr(metadata), as the recorded outputs show it
MetadataRepr(m) ==
    <<"{'page': ">> \o IntStr(m.page) \o <<", 'source': ">> \o StrRepr(<<m.source>>) \o <<"}">>

\* repr(Document)
DocumentRepr(d) ==
    <<"Document(page_content=">> \o StrRepr(d.page_content)
        \o <<", metadata=">> \o MetadataRepr(d.metadata) \o <<")">>

\* str(list of Document)
ListRepr(ds) ==
    <<"[">> \o Join([i \in 1..Len(ds) |-> DocumentRepr(ds[i])], <<", ">>) \o <<"]">>

\* ContextText with a plausible bug: only the top-ranked passage is kept
ContextTextTop(ds) == ListRepr(SubSeq(ds, 1, 1))

\* what the template's context slot receives: the retriever's output goes to
\* the template as it is, so the slot holds str() of the list of Documents
ContextText(ds) == ListRepr(ds)

\* Format with a plausible bug: the prompt is cut off after its context, so
\* the question never reaches the model
FormatCut(template, ds, q) ==
    Concat([i \in 1..Len(template) |->
               CASE template[i] = "{context}" -> ContextText(ds)
                 [] template[i] = "{question}" -> <<>>
                 [] OTHER -> <<template[i]>>])

\* prompt.format(context = ..., question = ...)
Format(template, ds, q) ==
    Concat([i \in 1..Len(template) |->
               CASE template[i] = "{context}" -> ContextText(ds)
                 [] template[i] = "{question}" -> q
                 [] OTHER -> <<template[i]>>])

---------------------------------------------------------------------------
(* rag_chain = {"context": retriever, "question": RunnablePassthrough()}   *)
(*             | llm_chain                                                  *)

\* the steps of one rag_chain.invoke call, in the order the chain runs them
Steps == <<"RECEIVED", "EMBEDDED", "RETRIEVED", "PROMPTED", "GENERATED", "DONE">>

StepIndex(s) == CHOOSE i \in 1..Len(Steps) : Steps[i] = s

\* NextStep with a plausible bug: the last step of the chain leaves the call
\* where it is (the text is there, the call is never done)
NextStepLoop(s) ==
    IF s = "GENERATED" THEN "GENERATED" ELSE Steps[StepIndex(s) + 1]

\* NextStep with a plausible bug: the chain goes from the embedding straight
\* to the prompt
NextStepSkip(s) ==
    IF s = "EMBEDDED" THEN "PROMPTED" ELSE Steps[StepIndex(s) + 1]

\* the step that follows step s when nothing raises
NextStep(s) == Steps[StepIndex(s) + 1]

Clear ==
    /\ question' = None
    /\ query_vector' = None
    /\ context' = None
    /\ prompt' = None
    /\ text' = None
    /\ result' = None
    /\ error' = None
    /\ invoked' = NotInvoked

---------------------------------------------------------------------------
(* The state machine *)

Init ==
    /\ store = <<>>
    /\ printed = None
    /\ stage = "IDLE"
    /\ question = None
    /\ query_vector = None
    /\ context = None
    /\ prompt = None
    /\ text = None
    /\ result = None
    /\ error = None
    /\ text_splitter = None
    /\ documents = None
    /\ chunks = None
    /\ invoked = NotInvoked

\* store, retriever and rag_chain exist once the ingestion cell has run to
\* its end, which it does with at least one chunk only (chunks[0])
StoreDefined == store # <<>>

\* The collection after the ingestion cell has run on a PDF with these page
\* texts: load, split, chunks[0], Chroma.from_documents.  chunks[0] raises
\* IndexError when there is no chunk, and the cell stops before the store
\* is touched.
ingestion_cell(st, pages) ==
    LET the_documents == load(pages)
        the_chunks == split_documents(the_documents, chunk_size, chunk_overlap)
    IN  IF the_chunks = <<>> THEN st
        ELSE from_documents(st, the_chunks, ids(the_chunks))

\* The ingestion cell runs
Ingest(pages) ==
    /\ stage = "IDLE"
    /\ store' = ingestion_cell(store, pages)
    /\ UNCHANGED <<printed, request, cell, invoked>>

\* The vector store test cell: docs = store.similarity_search(query);
\* print(docs[0].page_content)
TestStore(q) ==
    /\ stage = "IDLE"
    /\ StoreDefined
    /\ \E docs \in similarity_search(store, q, DefaultK) :
           printed' = docs[1].page_content
    /\ UNCHANGED <<store, request, cell, invoked>>

\* rag_chain.invoke(query) is called
Invoke(q) ==
    /\ stage = "IDLE"
    /\ StoreDefined
    /\ stage' = Steps[1]
    /\ question' = q
    /\ UNCHANGED <<invoked, cell, store, printed, query_vector, context,
                   prompt, text, result, error>>

\* the retriever embeds the question
EmbedQuestion ==
    /\ stage = "RECEIVED"
    /\ stage' = NextStep(stage)
    /\ query_vector' = embed(question)
    /\ invoked' = [invoked EXCEPT !.embed_query = @ + 1]
    /\ UNCHANGED <<cell, store, printed, question, context,
                   prompt, text, result, error>>

\* EmbedFails with a plausible bug: the exception is caught and logged, and
\* the chain goes on with a vector of zeros
EmbedFailsSwallowed ==
    /\ stage = "RECEIVED"
    /\ stage' = NextStep(stage)
    /\ error' = <<"embed_query">>
    /\ query_vector' = <<0, 0>>
    /\ invoked' = [invoked EXCEPT !.embed_query = @ + 1]
    /\ UNCHANGED <<cell, store, printed, question,
                   context, prompt, text, result>>

\* the embedding model raises
EmbedFails ==
    /\ stage = "RECEIVED"
    /\ stage' = "FAILED"
    /\ error' = <<"embed_query">>
    /\ invoked' = [invoked EXCEPT !.embed_query = @ + 1]
    /\ UNCHANGED <<cell, store, printed, question, query_vector,
                   context, prompt, text, result>>

\* Retrieve with a plausible bug: the search runs on the records as they
\* were before the last one was added (an index that is not refreshed)
RetrieveStale ==
    /\ stage = "EMBEDDED"
    /\ stage' = NextStep(stage)
    /\ \E r \in query_collection(SubSeq(store, 1, Len(store) - 1), query_vector, DefaultK) :
           context' = [i \in 1..Len(r) |-> AsDocument(r[i])]
    /\ UNCHANGED <<invoked, cell, store, printed, question, query_vector,
                   prompt, text, result, error>>

\* the retriever asks the collection for the nearest records
Retrieve ==
    /\ stage = "EMBEDDED"
    /\ stage' = NextStep(stage)
    /\ \E r \in query_collection(store, query_vector, DefaultK) :
           context' = [i \in 1..Len(r) |-> AsDocument(r[i])]
    /\ UNCHANGED <<invoked, cell, store, printed, question, query_vector,
                   prompt, text, result, error>>

\* llm_chain formats the prompt
AssemblePrompt ==
    /\ stage = "RETRIEVED"
    /\ stage' = NextStep(stage)
    /\ prompt' = Format(prompt_template, context, question)
    /\ UNCHANGED <<invoked, cell, store, printed, question, query_vector,
                   context, text, result, error>>

\* llm_chain runs the text generation pipeline, which returns the prompt
\* followed by the new text (return_full_text = True)
Generate ==
    /\ stage = "PROMPTED"
    /\ stage' = NextStep(stage)
    /\ \E a \in Answers : text' = prompt \o a
    /\ invoked' = [invoked EXCEPT !.generate = @ + 1]
    /\ UNCHANGED <<cell, store, printed, question, query_vector,
                   context, prompt, result, error>>

\* GenerateFails with a plausible bug: the exception is caught and the call
\* returns what it has, the retrieved context and the question
GenerateFailsPartial ==
    /\ stage = "PROMPTED"
    /\ stage' = "FAILED"
    /\ error' = <<"generate">>
    /\ result' = <<[context |-> context, question |-> question, text |-> None]>>
    /\ invoked' = [invoked EXCEPT !.generate = @ + 1]
    /\ UNCHANGED <<cell, store, printed, question, query_vector,
                   context, prompt, text>>

\* GenerateFails with a plausible bug: the exception is caught and the
\* text generation is run again (twice at most)
GenerateFailsRetry ==
    /\ stage = "PROMPTED"
    /\ invoked.generate < 2
    /\ stage' = stage
    /\ error' = <<"generate">>
    /\ invoked' = [invoked EXCEPT !.generate = @ + 1]
    /\ UNCHANGED <<cell, store, printed, question, query_vector,
                   context, prompt, text, result>>

\* the text generation pipeline raises
GenerateFails ==
    /\ stage = "PROMPTED"
    /\ stage' = "FAILED"
    /\ error' = <<"generate">>
    /\ invoked' = [invoked EXCEPT !.generate = @ + 1]
    /\ UNCHANGED <<cell, store, printed, question, query_vector,
                   context, prompt, text, result>>

\* Return with a plausible bug: the question is kept in the collection, as
\* a memory of the conversation
ReturnRemember ==
    /\ stage = "GENERATED"
    /\ stage' = NextStep(stage)
    /\ result' = <<[context |-> context, question |-> question, text |-> text]>>
    /\ store' = UpsertOne(store, [id |-> <<"memory">>, embedding |-> query_vector,
                                  page_content |-> question,
                                  metadata |-> [source |-> "memory", page |-> 0]])
    /\ UNCHANGED <<invoked, cell, printed, question, query_vector,
                   context, prompt, text, error>>

\* llm_chain returns its inputs and the text
Return ==
    /\ stage = "GENERATED"
    /\ stage' = NextStep(stage)
    /\ result' = <<[context |-> context, question |-> question, text |-> text]>>
    /\ UNCHANGED <<invoked, cell, store, printed, question, query_vector,
                   context, prompt, text, error>>

\* the cell that made the call ends; the kernel is idle again
CellEnds ==
    /\ stage \in {"DONE", "FAILED"}
    /\ stage' = "IDLE"
    /\ Clear
    /\ UNCHANGED <<store, printed, cell>>

\* the user interrupts the kernel while the call runs: KeyboardInterrupt
\* leaves rag_chain.invoke.  Nothing in the notebook sets a time limit; the
\* interrupt is the one way to cut a call off
Interrupted ==
    /\ stage \in Range(Steps) \ {"DONE"}
    /\ stage' = "FAILED"
    /\ error' = <<"KeyboardInterrupt">>
    /\ UNCHANGED <<invoked, cell, store, printed, question, query_vector,
                   context, prompt, text, result>>

\* the kernel is restarted while no cell runs: every global is gone, and so
\* is the collection, which Chroma holds in memory (from_documents is called
\* without persist_directory)
KernelRestart ==
    /\ stage = "IDLE"
    /\ store' = <<>>
    /\ printed' = None
    /\ Clear
    /\ UNCHANGED <<stage, cell>>

\* the page texts of a PDF of at most MaxPages pages
Pdfs == UNION { [1..n -> PageTexts] : n \in 0..MaxPages }

Next ==
    \/ \E pages \in Pdfs : Ingest(pages)
    \/ \E q \in Questions : TestStore(q)
    \/ \E q \in Questions : Invoke(q)
    \/ EmbedQuestion
    \/ EmbedFails
    \/ Retrieve
    \/ AssemblePrompt
    \/ Generate
    \/ GenerateFails
    \/ Return
    \/ Interrupted
    \/ CellEnds
    \/ KernelRestart

Spec == Init /\ [][Next]_vars

---------------------------------------------------------------------------
(* The notebook with calls that go on once started, on PDFs of a few pages *)

\* the largest number of pages of a PDF in LiveSpec
MaxLivePages == 2

LivePdfs == UNION { [1..n -> PageTexts] : n \in 0..MaxLivePages }

\* a step of the chain inside rag_chain.invoke
CallStep ==
    \/ EmbedQuestion
    \/ EmbedFails
    \/ Retrieve
    \/ AssemblePrompt
    \/ Generate
    \/ GenerateFails
    \/ Return

\* a call that has started goes on: the step of the chain that can be taken
\* is taken in the end (the embedding and the text generation return or
\* raise; the steps in between are plain computations)
Fairness == WF_vars(CallStep)

LiveNext ==
    \/ \E pages \in LivePdfs : Ingest(pages)
    \/ \E q \in Questions : TestStore(q)
    \/ \E q \in Questions : Invoke(q)
    \/ CallStep
    \/ Interrupted
    \/ CellEnds
    \/ KernelRestart

LiveSpec == Init /\ [][LiveNext]_vars /\ Fairness

---------------------------------------------------------------------------
(* The ingestion cell, one statement at a time, in a fresh kernel, with    *)
(* the arguments of the splitter and the page texts varied                 *)

\* the largest chunk_size tried
MaxSize == 4

\* the longest page text tried
MaxLen == 6

\* the longest page text tried in a PDF of two pages
MaxShort == 2

\* the letter that stands at each place of a page text: a page text never
\* holds the same letter at two places, so that a stretch of a chunk is
\* found at one place of its page only
Letters == <<"a", "b", "c", "d", "e", "f", "g", "h", "i", "j">>

RECURSIVE TextsOfLen(_)
\* the page texts of n characters: at each place its letter, a blank or a
\* newline
TextsOfLen(n) ==
    IF n = 0 THEN { <<>> }
    ELSE { Append(t, c) : t \in TextsOfLen(n - 1), c \in {Letters[n], " ", "\n"} }

Texts(n) == UNION { TextsOfLen(m) : m \in 0..n }

\* the page "the quick brown fox"
Fox == << "t", "h", "e", " ", "q", "u", "i", "c", "k", " ",
          "b", "r", "o", "w", "n", " ", "f", "o", "x" >>

\* chunk_size = 10, chunk_overlap = 3
FoxArgs == <<10, 3>>

\* the PDFs tried: one page of any text, two pages of short texts, the fox
\* page alone and twice
SplitPdfs ==
    { <<t>> : t \in Texts(MaxLen) }
        \cup { <<t, u>> : t \in Texts(MaxShort), u \in Texts(MaxShort) }
        \cup { <<Fox>>, <<Fox, Fox>> }

\* the (chunk_size, chunk_overlap) tried: every overlap up to one more than
\* the size
SplitArgs ==
    { <<size, overlap>> : size \in 1..MaxSize, overlap \in 0..(MaxSize + 1) }
        \cup { FoxArgs }

\* text_splitter = RecursiveCharacterTextSplitter(...) returns
NewSplitter(size, overlap) ==
    /\ text_splitter = None
    /\ error = None
    /\ RecursiveCharacterTextSplitter(size, overlap) # <<>>
    /\ text_splitter' = RecursiveCharacterTextSplitter(size, overlap)
    /\ UNCHANGED <<documents, chunks, store, printed, request, invoked>>

\* text_splitter = RecursiveCharacterTextSplitter(...) raises: the cell ends
NewSplitterFails(size, overlap) ==
    /\ text_splitter = None
    /\ error = None
    /\ RecursiveCharacterTextSplitter(size, overlap) = <<>>
    /\ error' = <<"ValueError", overlap, size>>
    /\ UNCHANGED <<invoked, cell, store, printed, stage, question, query_vector,
                   context, prompt, text, result>>

\* documents = loader.load(); chunks = text_splitter.split_documents(documents)
SplitDocuments(pages) ==
    /\ text_splitter # None
    /\ documents = None
    /\ documents' = load(pages)
    /\ chunks' = split_documents(load(pages), text_splitter[1].chunk_size,
                                 text_splitter[1].chunk_overlap)
    /\ UNCHANGED <<text_splitter, store, printed, request, invoked>>

\* chunks[0] raises IndexError: there is no chunk, and the cell ends
FirstChunkFails ==
    /\ documents # None
    /\ error = None
    /\ chunks = <<>>
    /\ error' = <<"IndexError">>
    /\ UNCHANGED <<invoked, cell, store, printed, stage, question, query_vector,
                   context, prompt, text, result>>

\* chunks[0]; store = Chroma.from_documents(chunks, embeddings, ids = ...)
FromDocuments ==
    /\ documents # None
    /\ chunks # <<>>
    /\ store = <<>>
    /\ store' = from_documents(store, chunks, ids(chunks))
    /\ UNCHANGED <<cell, printed, request, invoked>>

SplitNext ==
    \/ \E a \in SplitArgs : NewSplitter(a[1], a[2])
    \/ \E a \in SplitArgs : NewSplitterFails(a[1], a[2])
    \/ \E pages \in SplitPdfs : SplitDocuments(pages)
    \/ FirstChunkFails
    \/ FromDocuments

SplitSpec == Init /\ [][SplitNext]_vars

---------------------------------------------------------------------------
(* The ids expression on the chunks of the pages of one or two PDFs *)

\* the source of the pages of a second PDF
OtherSource == "/tf/docker-shared-data/rag-data/other.pdf"

\* the pages of a PDF of another path: item.metadata['source'] is that path
loadOther(pages) ==
    [i \in 1..Len(pages) |->
        [load(pages)[i] EXCEPT !.metadata.source = OtherSource]]

\* the texts of the pages of a PDF: no page or one short page
IdsPdfs == { <<>> } \cup { <<t>> : t \in Texts(MaxShort) }

\* chunks = text_splitter.split_documents(documents), documents being the
\* pages of the book followed by the pages of the other PDF (none, when the
\* book is the only source as in the cell)
SplitDocumentsOfTwo(pages, others) ==
    /\ text_splitter # None
    /\ documents = None
    /\ documents' = load(pages) \o loadOther(others)
    /\ chunks' = split_documents(load(pages) \o loadOther(others),
                                 text_splitter[1].chunk_size,
                                 text_splitter[1].chunk_overlap)
    /\ UNCHANGED <<text_splitter, store, printed, request, invoked>>

IdsNext ==
    \/ \E a \in SplitArgs : NewSplitter(a[1], a[2])
    \/ \E pages \in IdsPdfs \ { <<>> }, others \in IdsPdfs :
           SplitDocumentsOfTwo(pages, others)
    \/ FirstChunkFails
    \/ FromDocuments

IdsSpec == Init /\ [][IdsNext]_vars

---------------------------------------------------------------------------
(* Bounds and helpers of the properties *)

\* the largest k the k-bound is checked for
MaxK == 6

\* the largest maximum prompt length considered, in elements of the context
MaxBudget == 20

Prompted == {"PROMPTED", "GENERATED", "DONE"}

Retrieved == {"RETRIEVED"} \cup Prompted

\* what stands in the context slot of a prompt built for question q: the
\* template has three pieces before the slot and two pieces and the
\* question after it
ContextSlot(p, q) == SubSeq(p, 4, Len(p) - Len(q) - 2)

\* the first place at or after i where needle starts in s, 0 when none
FindFrom(s, needle, i) ==
    LET hits == { j \in i..(Len(s) - Len(needle) + 1) : StartsAt(s, j, needle) }
    IN  IF hits = {} THEN 0 ELSE CHOOSE j \in hits : \A h \in hits : j <= h

RECURSIVE InOrderFrom(_, _, _)
\* every Document of ds is rendered in s, one after the other, from place i on
InOrderFrom(s, ds, i) ==
    IF ds = <<>> THEN TRUE
    ELSE LET at == FindFrom(s, DocumentRepr(Head(ds)), i)
         IN  at # 0 /\ InOrderFrom(s, Tail(ds), at + Len(DocumentRepr(Head(ds))))

\* how many of the retrieved Documents are rendered in the context slot
KeptCount(slot, ds) ==
    Cardinality({ i \in 1..Len(ds) : Contains(slot, DocumentRepr(ds[i])) })

\* the delimiters a plain-text context could be joined with
Delimiters == { <<>>, <<" ">>, <<"\n">>, <<"\n", "\n">>, <<",", " ">> }

\* the prompt as it would be with text standing in the context slot
PromptWith(slot, q) ==
    Concat([i \in 1..Len(prompt_template) |->
               CASE prompt_template[i] = "{context}" -> slot
                 [] prompt_template[i] = "{question}" -> q
                 [] OTHER -> <<prompt_template[i]>>])

AllDocuments(st) == { AsDocument(st[i]) : i \in 1..Len(st) }

---------------------------------------------------------------------------
(* Properties *)

\* C3: ingestion is idempotent: from every collection the notebook can
\* build and for every document, running the ingestion cell twice on the
\* document leaves the collection with exactly the records (id, vector,
\* text, metadata) it holds after running it once, no more and no less.
\* (The cell runs while the kernel is idle.)
C3_IdempotentIngestion ==
    stage = "IDLE" =>
        \A pages \in Pdfs :
            LET once == ingestion_cell(store, pages)
            IN  ingestion_cell(once, pages) = once

\* C3 witness: a document of several chunks has been ingested over an older,
\* longer one: the collection holds its records and older ones
C3_Witness ==
    \E pages \in Pdfs :
        /\ Len(pages) >= 2
        /\ Len(store) > Len(pages)
        /\ ingestion_cell(<<>>, pages) = SubSeq(store, 1, Len(pages))

\* C4: a rag_chain.invoke call goes through RECEIVED, EMBEDDED, RETRIEVED,
\* PROMPTED, GENERATED, DONE in this order, one step at a time; the only other
\* move inside a call is from a step before DONE to FAILED.  (IDLE is the
\* kernel between two calls.)
C4_StageOrder ==
    [][ stage' # stage =>
          \/ stage = "IDLE" /\ stage' = "RECEIVED"
          \/ \E i \in 1..(Len(Steps) - 1) : stage = Steps[i] /\ stage' = Steps[i + 1]
          \/ stage \in (Range(Steps) \ {"DONE"}) /\ stage' = "FAILED"
          \/ stage \in {"DONE", "FAILED"} /\ stage' = "IDLE" ]_vars

\* C4 witness: a call has gone through every step and returned
C4_Witness == stage = "DONE" /\ result # None

\* C5: a search never returns more than k records and returns every record
\* of the collection when the collection holds fewer than k; for the k the
\* retriever uses, and for every k from 1 to MaxK on every collection the
\* notebook can build (the collection only changes while the kernel is
\* idle, so the idle states hold every one of them).
C5_KBound ==
    /\ stage \in Retrieved =>
          /\ Len(context) <= DefaultK
          /\ Len(store) < DefaultK => Range(context) = AllDocuments(store)
    /\ stage = "IDLE" =>
          \A q \in Questions, k \in 1..MaxK :
              \A r \in similarity_search(store, q, k) :
                  /\ Len(r) <= k
                  /\ Len(store) < k => Range(r) = AllDocuments(store)

\* C5 witness: the retriever returned k records out of more, and (second
\* state) every record of a collection of fewer than k
C5_Witness ==
    stage = "RETRIEVED" /\ Len(store) > DefaultK /\ Len(context) = DefaultK

C5_WitnessSmall ==
    stage = "RETRIEVED" /\ Len(store) = 2 /\ Len(context) = 2

\* C7: the context slot of the prompt holds the raw texts of the retrieved
\* passages, in ranked order, joined by a delimiter, and no metadata (the
\* source path) appears in the prompt.
C7_RawContext ==
    stage \in Prompted =>
        /\ \E d \in Delimiters :
              prompt = PromptWith(Join([i \in 1..Len(context) |-> context[i].page_content], d),
                                  question)
        /\ ~(Source \in Range(prompt))

\* C8: the prompt contains the question and, when something was retrieved,
\* the text of the top-ranked passage.
C8_QuestionAndTop ==
    stage \in Prompted =>
        /\ Contains(prompt, question)
        /\ context # <<>> => Contains(prompt, context[1].page_content)

C10_DirectiveAndQuestion ==
    /\ stage \in Prompted =>
          /\ Contains(prompt, Directive)
          /\ Contains(prompt, <<prompt_template[5]>> \o question \o <<prompt_template[7]>>)
    /\ stage = "IDLE" =>
          \A q \in Questions :
              LET p == Format(prompt_template, <<>>, q)
              IN  /\ Contains(p, Directive)
                  /\ Contains(p, <<prompt_template[5]>> \o q \o <<prompt_template[7]>>)

\* C10 witness: a prompt was built for a question that no retrieved passage
\* matches (the nearest passage is at a distance above 0)
C10_Witness ==
    /\ stage = "PROMPTED"
    /\ \A i \in 1..Len(store) : Distance(store[i].embedding, query_vector) > 0

\* C11: when the embedding of the question raises, the call goes from
\* RECEIVED to FAILED, the exception of the embedding is what surfaces, and
\* for this call the collection is not queried, no prompt is built and the
\* text generation is not run (nothing is returned either).
C11_EmbedFailure ==
    [][ /\ (error' = <<"embed_query">> /\ error # error') =>
              (stage = "RECEIVED" /\ stage' = "FAILED")
        /\ error' = <<"embed_query">> =>
              /\ stage' = "FAILED"
              /\ query_vector' = None
              /\ context' = None
              /\ prompt' = None
              /\ text' = None
              /\ result' = None ]_vars

\* C11 witness: the embedding of a question has raised
C11_Witness ==
    stage = "FAILED" /\ error = <<"embed_query">> /\ question # None

\* C12: when the text generation raises, the call goes from PROMPTED to
\* FAILED, the exception of the generation is what surfaces, the call never
\* gets to GENERATED or DONE, and it returns nothing, although the context
\* was retrieved.
C12_GenerateFailure ==
    [][ /\ (error' = <<"generate">> /\ error # error') =>
              (stage = "PROMPTED" /\ stage' = "FAILED")
        /\ error' = <<"generate">> =>
              /\ stage' = "FAILED"
              /\ text' = None
              /\ result' = None
        /\ stage = "FAILED" => stage' \in {"FAILED", "IDLE"} ]_vars

\* C12 witness: the text generation has raised after the context was
\* retrieved and the prompt built
C12_Witness ==
    /\ stage = "FAILED"
    /\ error = <<"generate">>
    /\ context # None
    /\ prompt # None

\* the record from_documents writes for chunk c under id
RecordOf(c, id) ==
    [id |-> id, embedding |-> embed(c.page_content),
     page_content |-> c.page_content, metadata |-> c.metadata]

IdsOf(st) == { st[i].id : i \in 1..Len(st) }

---------------------------------------------------------------------------
(* Properties of the ingestion cell with its arguments varied (SplitSpec) *)

\* the splitter's arguments, once the splitter is built
Size == text_splitter[1].chunk_size

Overlap == text_splitter[1].chunk_overlap

\* the texts of the chunks of page p (zero-based), in order
ChunkTexts(p) ==
    LET cs == SelectSeq(chunks, LAMBDA c : c.metadata.page = p)
    IN  [i \in 1..Len(cs) |-> cs[i].page_content]

\* the text without its whitespace
NonBlank(t) == SelectSeq(t, LAMBDA c : c \notin Whitespace)

\* the length of the longest end of u that is a start of v.  A stretch of
\* whitespace only is not counted: a blank looks the same at every place of
\* a page, and the splitter repeats none (it strips the chunks it merges)
Shared(u, v) ==
    LET fits == { n \in 0..(IF Len(u) < Len(v) THEN Len(u) ELSE Len(v)) :
                    /\ SubSeq(u, Len(u) - n + 1, Len(u)) = SubSeq(v, 1, n)
                    /\ n > 0 => NonBlank(SubSeq(v, 1, n)) # <<>> }
    IN  CHOOSE n \in fits : \A m \in fits : m <= n

RECURSIVE Rebuild(_)
\* the chunk texts put together, what two neighbours share taken once
Rebuild(ts) ==
    IF ts = <<>> THEN <<>>
    ELSE IF Len(ts) = 1 THEN ts[1]
    ELSE LET rest == Rebuild(Tail(ts))
         IN  ts[1] \o SubSeq(rest, Shared(ts[1], ts[2]) + 1, Len(rest))

\* C15: in a run of the ingestion cell the ids handed to the store are
\* pairwise distinct, for PDFs of one and of two pages and pages of one and
\* of many chunks, and the store holds one record per chunk, chunk i under
\* the i-th id.
C15_IdsDistinct ==
    documents # None =>
        LET batch == ids(chunks)
        IN  /\ \A i, j \in 1..Len(batch) : batch[i] = batch[j] => i = j
            /\ store # <<>> =>
                  /\ Len(store) = Len(chunks)
                  /\ \A i \in 1..Len(chunks) : store[i].id = batch[i]

\* C15 witness: a PDF of two pages has been stored in more than ten chunks,
\* several of each page
C15_Witness ==
    /\ Len(documents) = 2
    /\ Len(store) > 10
    /\ Len(ChunkTexts(0)) > 1
    /\ Len(ChunkTexts(1)) > 1

\* C16: no chunk is longer than chunk_size, for every page text and every
\* (chunk_size, chunk_overlap) the constructor accepts.
C16_ChunkSizeBound ==
    documents # None =>
        \A i \in 1..Len(chunks) : Len(chunks[i].page_content) <= Size

\* C16 witness: a page longer than chunk_size with no separator in it has
\* been split, and a chunk of chunk_size characters is among its chunks
C16_Witness ==
    /\ documents # None
    /\ Len(documents) = 1
    /\ NonBlank(documents[1].page_content) = documents[1].page_content
    /\ Len(documents[1].page_content) > Size
    /\ \E i \in 1..Len(chunks) : Len(chunks[i].page_content) = Size

\* the fox page has been split with chunk_size = 10, chunk_overlap = 3
FoxSplit ==
    /\ documents = load(<<Fox>>)
    /\ <<Size, Overlap>> = FoxArgs

SharingReached ==
    /\ documents # None
    /\ Overlap > 0
    /\ \E i \in 1..(Len(ChunkTexts(0)) - 1) :
           Shared(ChunkTexts(0)[i], ChunkTexts(0)[i + 1]) = Overlap

\* the constructor of the splitter has raised
ConfigFailed == error # None /\ error[1] = "ValueError"

\* C19 as stated: a chunk_overlap that is chunk_size or more is refused: no
\* splitter is built, no chunk is produced and nothing is written to the
\* store.
C19_InvalidConfig ==
    /\ text_splitter # None => Overlap < Size
    /\ ConfigFailed =>
          (text_splitter = None /\ documents = None /\ chunks = <<>> /\ store = <<>>)

\* C19 amended: a chunk_overlap larger than chunk_size is refused (the
\* constructor raises ValueError): no splitter is built, no chunk is
\* produced and nothing is written to the store; a chunk_overlap equal to
\* chunk_size is accepted.
C19_LargerOverlapFails ==
    /\ text_splitter # None => Overlap <= Size
    /\ ConfigFailed =>
          /\ error[2] > error[3]
          /\ text_splitter = None /\ documents = None /\ chunks = <<>> /\ store = <<>>
    /\ (text_splitter = None /\ error = None) =>
          \A a \in SplitArgs :
              /\ a[2] > a[1] => ~ENABLED NewSplitter(a[1], a[2])
              /\ a[2] <= a[1] => ~ENABLED NewSplitterFails(a[1], a[2])

\* C19 witness: the constructor has refused a chunk_overlap larger than
\* chunk_size
C19_Witness == ConfigFailed /\ store = <<>>

---------------------------------------------------------------------------
(* Properties of the store, the ids and the calls *)

\* C23 as stated: after a restart of the process every search returns what
\* it returned before the restart, for every question and every k.
C23_SurvivesRestart ==
    [][ KernelRestart =>
          \A q \in Questions, k \in 1..MaxK :
              similarity_search(store', q, k) = similarity_search(store, q, k) ]_vars

\* the value of a digit
DigitValue(c) == (CHOOSE i \in 1..Len(Digits) : Digits[i] = c) - 1

RECURSIVE ParseInt(_)
\* int(s) for a string of digits
ParseInt(s) ==
    IF s = <<>> THEN 0
    ELSE 10 * ParseInt(SubSeq(s, 1, Len(s) - 1)) + DigitValue(s[Len(s)])

\* how many chunks of the source of chunk i come before chunk i
PositionInSource(i) ==
    Cardinality({ j \in 1..(i - 1) :
                    chunks[j].metadata.source = chunks[i].metadata.source })

C25_AtMostOnce ==
    [][ /\ invoked'.embed_query > invoked.embed_query =>
              (stage = "RECEIVED" /\ invoked.embed_query = 0)
        /\ invoked'.generate > invoked.generate =>
              (stage = "PROMPTED" /\ invoked.generate = 0)
        /\ error # None =>
              (invoked' = invoked \/ invoked' = NotInvoked) ]_vars

\* C25 witness: the text generation has raised in a call that ran the
\* embedding once and the text generation once
C25_Witness ==
    /\ stage = "FAILED"
    /\ error = <<"generate">>
    /\ invoked = [embed_query |-> 1, generate |-> 1]

\* C27: no step of a call changes the collection, whether the call ends in
\* DONE, ends in FAILED because a step raised, or is cut off by an interrupt
\* at any step.
C27_CallLeavesStore ==
    [][ stage # "IDLE" => store' = store ]_vars

\* C27 witness: a call has been cut off after it had retrieved its context
C27_Witness ==
    /\ stage = "FAILED"
    /\ error = <<"KeyboardInterrupt">>
    /\ context # None
    /\ store # <<>>

\* C28: what a call has retrieved is taken from the records the collection
\* holds now, that is after every ingestion that has run: every retrieved
\* document is a record of the collection, as many are retrieved as k and
\* the collection allow, and no record left out is nearer to the embedding
\* of the question than a retrieved one.
C28_NoStaleRetrieval ==
    stage \in Retrieved =>
        /\ \A i \in 1..Len(context) : context[i] \in AllDocuments(store)
        /\ Len(context) = (IF Len(store) < DefaultK THEN Len(store) ELSE DefaultK)
        /\ \A i \in 1..Len(store) :
               AsDocument(store[i]) \notin Range(context) =>
                   \A j \in 1..Len(context) :
                       Distance(embed(context[j].page_content), embed(question))
                           <= Distance(store[i].embedding, embed(question))

\* C28 witness: a search before an ingestion returned a passage that the
\* ingestion has replaced, and a call has retrieved after it
C28_Witness ==
    /\ stage = "RETRIEVED"
    /\ printed # None
    /\ \A i \in 1..Len(store) : store[i].page_content # printed

\* C30: every call that has started gets to DONE or to FAILED, given that
\* the embedding and the text generation return or raise.
C30_Terminates ==
    (stage # "IDLE") ~> (stage \in {"DONE", "FAILED"})

\* C30 witness: a call has been cut off by an interrupt after the text
\* generation had returned
C30_Witness ==
    /\ stage = "FAILED"
    /\ error = <<"KeyboardInterrupt">>
    /\ text # None

====
